---- MODULE Spec2Model ----
(***************************************************************************)
(* minspan::span (src/src/lib.rs): the shortest window of `history` that   *)
(* holds `query` as an ordered subsequence, found in one left-to-right     *)
(* scan.  The model runs the function one loop step at a time: the entry  *)
(* block, one step per outer-loop iteration header, one step per inner-   *)
(* loop iteration, and the return.  Indices are 0-based as in the source. *)
(***************************************************************************)
EXTENDS Integers, Sequences, FiniteSets

\* The element type A: only equality is used (A: PartialEq).
Elems == {"a", "b"}

\* Longest query and longest history drawn as inputs.
MaxQuery == 3
MaxHistory == 5

VARIABLES query, history, pc, bodyindex, kpos, start_indices, best_span,
          result, fault, row_prev

vars == <<query, history, pc, bodyindex, kpos, start_indices, best_span,
          result, fault, row_prev>>

----------------------------------------------------------------------------
\* Option<T>: None, Some(x).
None == <<>>
Some(x) == <<x>>
Unwrap(o) == o[1]

\* v[i] of a Vec, 0-based.
At(v, i) == v[i + 1]

\* All Vec<A> of length 0..n.
Vecs(n) == UNION {[1..l -> Elems] : l \in 0..n}

----------------------------------------------------------------------------
\* query.is_empty() guard of the early return.
EarlyReturnOff(q) == FALSE
EarlyReturn(q) == Len(q) = 0

\* (0..query.len()).rev(): the key indices in the order the inner loop
\* visits them, m-1 first.
KeyOrderAscending(m) == [i \in 1..m |-> i - 1]
KeyOrder(m) == [i \in 1..m |-> m - i]

\* keyindex == 0: the match starts a fresh chain.
IsFirstNever(keyindex) == FALSE
IsFirst(keyindex) == keyindex = 0

\* Some(bodyindex): the start recorded for a fresh chain.
FreshStartNext(j) == Some(j + 1)
FreshStart(j) == Some(j)

\* start_indices[keyindex - 1].map(|start| start): the start inherited from
\* the previous query position.
ExtendStartSameLevel(si, keyindex) == si[keyindex]
ExtendStart(si, keyindex) == si[keyindex - 1]

\* Lines 21-27: the start recorded at level keyindex on a match at bodyindex.
NewStartKeepFirst(si, keyindex, j) ==
    IF IsFirst(keyindex)
    THEN IF si[keyindex] = None THEN FreshStart(j) ELSE si[keyindex]
    ELSE ExtendStart(si, keyindex)
NewStart(si, keyindex, j) ==
    IF IsFirst(keyindex)
    THEN FreshStart(j)
    ELSE ExtendStart(si, keyindex)

\* end - start < curr_end - curr_start
ShorterOrEqual(start, end, curr_start, curr_end) == end - start <= curr_end - curr_start
Longer(start, end, curr_start, curr_end) == end - start > curr_end - curr_start
Shorter(start, end, curr_start, curr_end) == end - start < curr_end - curr_start

\* The match on best_span.
UpdateBestAlways(best, start, end) == Some(<<start, end>>)
UpdateBest(best, start, end) ==
    IF best = None
    THEN Some(<<start, end>>)
    ELSE IF Shorter(start, end, Unwrap(best)[1], Unwrap(best)[2])
         THEN Some(<<start, end>>)
         ELSE best

\* An index that is out of bounds where the matching branch uses it:
\* query[keyindex], start_indices[keyindex], start_indices[keyindex - 1].
IndexFault(si, q, keyindex) ==
    \/ keyindex \notin 0..(Len(q) - 1)
    \/ keyindex \notin DOMAIN si
    \/ ~IsFirst(keyindex) /\ (keyindex - 1) \notin DOMAIN si

\* An unsigned subtraction of the comparison that would go below zero.
\* The subtractions are evaluated only in the Some arm of the match.
SubFault(best, start, end) ==
    /\ best # None
    /\ \/ end < start
       \/ Unwrap(best)[2] < Unwrap(best)[1]

----------------------------------------------------------------------------
Init ==
    /\ query \in Vecs(MaxQuery)
    /\ history \in Vecs(MaxHistory)
    /\ pc = "entry"
    /\ bodyindex = 0
    /\ kpos = 1
    /\ start_indices = <<>>
    /\ best_span = None
    /\ result = None
    /\ fault = "none"
    /\ row_prev = <<>>

\* Lines 9-11: the empty query returns Some((0, 0)) at once.
ReturnEmpty ==
    /\ pc = "entry"
    /\ EarlyReturn(query)
    /\ result' = Some(<<0, 0>>)
    /\ pc' = "done"
    /\ UNCHANGED <<query, history, bodyindex, kpos, start_indices, best_span,
                   fault, row_prev>>

\* Lines 13-14: the working array and the accumulator.
Allocate ==
    /\ pc = "entry"
    /\ ~EarlyReturn(query)
    /\ start_indices' = [i \in 0..(Len(query) - 1) |-> None]
    /\ best_span' = None
    /\ row_prev' = [i \in 0..(Len(query) - 1) |-> None]
    /\ pc' = "outer"
    /\ UNCHANGED <<query, history, bodyindex, kpos, result, fault>>

\* Line 16: the outer loop takes the next element of history.  row_prev
\* records start_indices as it stands on entry to this iteration.
OuterIter ==
    /\ pc = "outer"
    /\ bodyindex < Len(history)
    /\ pc' = "inner"
    /\ kpos' = 1
    /\ row_prev' = start_indices
    /\ UNCHANGED <<query, history, bodyindex, start_indices, best_span,
                   result, fault>>

\* Lines 18-19: one inner iteration whose key differs from bodychr.
InnerSkip ==
    /\ pc = "inner"
    /\ kpos <= Len(KeyOrder(Len(query)))
    /\ LET keyindex == KeyOrder(Len(query))[kpos] IN
         IF keyindex \notin 0..(Len(query) - 1)
         THEN /\ fault' = "index"
              /\ pc' = "panic"
              /\ UNCHANGED kpos
         ELSE /\ At(query, keyindex) # At(history, bodyindex)
              /\ kpos' = kpos + 1
              /\ UNCHANGED <<pc, fault>>
    /\ UNCHANGED <<query, history, bodyindex, start_indices, best_span,
                   result, row_prev>>

\* Lines 19-46: one inner iteration whose key equals bodychr.
InnerMatch ==
    /\ pc = "inner"
    /\ kpos <= Len(KeyOrder(Len(query)))
    /\ LET keyindex == KeyOrder(Len(query))[kpos]
           last == Len(query) - 1
       IN
         /\ keyindex \in 0..last
         /\ At(query, keyindex) = At(history, bodyindex)
         /\ IF IndexFault(start_indices, query, keyindex)
            THEN /\ fault' = "index"
                 /\ pc' = "panic"
                 /\ UNCHANGED <<kpos, start_indices, best_span>>
            ELSE LET new == NewStart(start_indices, keyindex, bodyindex)
                     si == [start_indices EXCEPT ![keyindex] = new]
                 IN
                   IF keyindex = last /\ si[last] # None
                   THEN LET start == Unwrap(si[last])
                            end == bodyindex
                        IN
                          IF SubFault(best_span, start, end)
                          THEN /\ fault' = "underflow"
                               /\ pc' = "panic"
                               /\ start_indices' = si
                               /\ UNCHANGED <<kpos, best_span>>
                          ELSE /\ start_indices' = si
                               /\ best_span' = UpdateBest(best_span, start, end)
                               /\ kpos' = kpos + 1
                               /\ UNCHANGED <<pc, fault>>
                   ELSE /\ start_indices' = si
                        /\ kpos' = kpos + 1
                        /\ UNCHANGED <<pc, fault, best_span>>
    /\ UNCHANGED <<query, history, bodyindex, result, row_prev>>

\* Line 18: the inner range is exhausted; the outer loop moves on.
InnerExit ==
    /\ pc = "inner"
    /\ kpos > Len(KeyOrder(Len(query)))
    /\ bodyindex' = bodyindex + 1
    /\ pc' = "outer"
    /\ UNCHANGED <<query, history, kpos, start_indices, best_span, result,
                   fault, row_prev>>

\* Line 51: history is exhausted; best_span is the value of the call.
Return ==
    /\ pc = "outer"
    /\ bodyindex >= Len(history)
    /\ result' = best_span
    /\ pc' = "done"
    /\ UNCHANGED <<query, history, bodyindex, kpos, start_indices, best_span,
                   fault, row_prev>>

Next ==
    \/ ReturnEmpty
    \/ Allocate
    \/ OuterIter
    \/ InnerSkip
    \/ InnerMatch
    \/ InnerExit
    \/ Return

Spec == Init /\ [][Next]_vars

----------------------------------------------------------------------------
\* What the claims speak of, stated without reference to the scan.

m == Len(query)
n == Len(history)

\* The number of members of I below i: the query position that reference
\* index i takes when I is read as an increasing index chain.
Rank(I, i) == Cardinality({x \in I : x < i})

\* I is a strictly increasing index chain that matches q[0..=k] in h.
Matches(q, k, h, I) ==
    /\ Cardinality(I) = k + 1
    /\ \A i \in I : At(h, i) = At(q, Rank(I, i))

\* There is a chain i_0 < ... < i_k with i_0 = s, i_k = e and
\* h[i_t] = q[t] for every t.
HasChain(q, k, h, s, e) ==
    /\ 0 <= s /\ s <= e /\ e < Len(h)
    /\ \E I \in SUBSET (s..e) : s \in I /\ e \in I /\ Matches(q, k, h, I)

\* The window [s, e] of h holds q as an ordered subsequence.
WindowContains(q, h, s, e) ==
    /\ 0 <= s /\ s <= e /\ e < Len(h)
    /\ \E I \in SUBSET (s..e) : Matches(q, Len(q) - 1, h, I)

\* q is an ordered subsequence of h.
IsSubsequence(q, h) == \E I \in SUBSET (0..(Len(h) - 1)) : Matches(q, Len(q) - 1, h, I)

Positions == 0..(n - 1)

\* The call has returned a span for a non-empty query.
Found == pc = "done" /\ query # <<>> /\ result # None
ResStart == Unwrap(result)[1]
ResEnd == Unwrap(result)[2]

\* The key index of the inner iteration about to run.
AtKey == pc = "inner" /\ kpos <= Len(KeyOrder(m))
KeyIndex == KeyOrder(m)[kpos]

\* Level k has been visited at reference position p.
Visited(k, p) ==
    \/ p < bodyindex
    \/ p = bodyindex /\ pc = "inner"
         /\ \E i \in 1..(kpos - 1) : i <= Len(KeyOrder(m)) /\ KeyOrder(m)[i] = k

\* p is the reference position where query[k] was last matched.
LastMatched(k, p) ==
    /\ p \in Positions /\ Visited(k, p) /\ At(history, p) = At(query, k)
    /\ \A p2 \in Positions :
         Visited(k, p2) /\ At(history, p2) = At(query, k) => p2 <= p

\* The starts of the match paths of query[0..=k] that end at p.
PathStarts(k, p) == {s \in 0..p : HasChain(query, k, history, s, p)}

Scanning == pc \in {"outer", "inner", "done"} /\ query # <<>>

----------------------------------------------------------------------------
\* C1 (soundness): a span (s, e) returned for a non-empty query has
\* s <= e < |history|, history[s] = query[0], history[e] = query[last], and
\* a strictly increasing index chain from s to e matches query elementwise.
C1_Soundness ==
    Found =>
        /\ ResStart <= ResEnd /\ ResEnd < n /\ 0 <= ResStart
        /\ At(history, ResStart) = At(query, 0)
        /\ At(history, ResEnd) = At(query, m - 1)
        /\ HasChain(query, m - 1, history, ResStart, ResEnd)

\* A three-element query found with gaps between its elements.
C1_Witness == Found /\ m = 3 /\ ResEnd - ResStart > 2

\* C2 (minimality): no window shorter than the returned one holds query as
\* an ordered subsequence, and the returned length is the least length over
\* all windows that do.
C2_Minimality ==
    Found =>
        /\ \A s \in Positions : \A e \in Positions :
             e - s < ResEnd - ResStart => ~WindowContains(query, history, s, e)
        /\ WindowContains(query, history, ResStart, ResEnd)

\* The returned window is shorter than a match that ends before it.
C2_Witness ==
    /\ Found
    /\ \E s \in Positions : \E e \in Positions :
         /\ e < ResEnd /\ e - s > ResEnd - ResStart
         /\ HasChain(query, m - 1, history, s, e)

\* C3 (completeness): for a non-empty query the result is None exactly when
\* query is not an ordered subsequence of history.
C3_Completeness ==
    pc = "done" /\ query # <<>> =>
        (result = None <=> ~IsSubsequence(query, history))

\* Every element of the query occurs in a history that is long enough, and
\* still there is no match: the elements occur in another order.
C3_Witness ==
    /\ pc = "done" /\ m >= 2 /\ n >= m /\ result = None
    /\ \A k \in 0..(m - 1) : \E p \in Positions : At(history, p) = At(query, k)

\* C4 (empty query): the result is Some((0, 0)) for every history, and no
\* element of history has been scanned.
C4_EmptyQuery ==
    pc = "done" /\ query = <<>> =>
        /\ result = Some(<<0, 0>>)
        /\ bodyindex = 0
        /\ start_indices = <<>>

C4_Witness == pc = "done" /\ query = <<>> /\ n > 0 /\ result = Some(<<0, 0>>)

\* C5 (non-regression under append): the scan reads history[bodyindex] and
\* nothing to its right, and the call returns best_span as it stands when
\* history runs out, so best_span after j elements is the result for the
\* first j elements and appending is further iterations of the scan: once a
\* span is found it stays found and its length never grows.
C5_Step ==
    best_span # None =>
        /\ best_span' # None
        /\ Unwrap(best_span')[2] - Unwrap(best_span')[1]
             <= Unwrap(best_span)[2] - Unwrap(best_span)[1]
C5_Monotonic ==
    /\ [][C5_Step]_vars
    /\ [](pc = "done" /\ query # <<>> => bodyindex = n /\ result = best_span)

\* A span was found, and a later element of history replaced it.
C5_Witness ==
    /\ pc = "outer" /\ best_span # None
    /\ \E s \in Positions : \E e \in Positions :
         /\ e < Unwrap(best_span)[2]
         /\ e - s > Unwrap(best_span)[2] - Unwrap(best_span)[1]
         /\ HasChain(query, m - 1, history, s, e)

\* C6 (no panic): no index is out of bounds and no unsigned subtraction goes
\* below zero, on any input.
C6_NoFault == fault = "none" /\ pc # "panic"

\* A query with a repeated element, a longer history, and a second complete
\* match compared against the recorded one.
C6_Witness ==
    /\ AtKey /\ m >= 2 /\ n > m /\ At(query, 0) = At(query, 1)
    /\ KeyIndex = m - 1
    /\ At(query, KeyIndex) = At(history, bodyindex)
    /\ start_indices[m - 2] # None
    /\ best_span # None

\* C7 (tie-breaking): a recorded best_span is replaced only by a strictly
\* shorter span, and among the windows of minimal length the one with the
\* smallest end index is returned.
C7_Replace ==
    (best_span # None /\ best_span' # best_span) =>
        /\ best_span' # None
        /\ Unwrap(best_span')[2] - Unwrap(best_span')[1]
             < Unwrap(best_span)[2] - Unwrap(best_span)[1]
C7_Returned ==
    Found =>
        \A s \in Positions : \A e \in Positions :
            (HasChain(query, m - 1, history, s, e) /\ e - s = ResEnd - ResStart)
                => ResEnd <= e
C7_FirstFound == [][C7_Replace]_vars /\ []C7_Returned

\* Two windows tie on the minimal length.
C7_Witness ==
    /\ Found
    /\ \E s \in Positions : \E e \in Positions :
         /\ e > ResEnd /\ e - s = ResEnd - ResStart
         /\ HasChain(query, m - 1, history, s, e)

\* C8 as stated: a present start_indices[k] is the start of the
\* earliest-starting match path of query[0..=k] among those that end where
\* query[k] was last matched.
C8_EarliestStart ==
    Scanning =>
        \A k \in DOMAIN start_indices :
            start_indices[k] # None =>
                \E p \in Positions :
                    /\ LastMatched(k, p)
                    /\ Unwrap(start_indices[k]) \in PathStarts(k, p)
                    /\ \A s \in PathStarts(k, p) : Unwrap(start_indices[k]) <= s

\* C8 as amended: a present start_indices[k] is the start of the
\* latest-starting match path of query[0..=k] among those that end where
\* query[k] was last matched.
C8_LatestStart ==
    Scanning =>
        \A k \in DOMAIN start_indices :
            start_indices[k] # None =>
                \E p \in Positions :
                    /\ LastMatched(k, p)
                    /\ Unwrap(start_indices[k]) \in PathStarts(k, p)
                    /\ \A s \in PathStarts(k, p) : s <= Unwrap(start_indices[k])

\* Several match paths with different starts end where query[k] was last
\* matched.
C8_Witness ==
    /\ Scanning
    /\ \E k \in DOMAIN start_indices :
         /\ k >= 1 /\ start_indices[k] # None
         /\ \E p \in Positions :
              LastMatched(k, p) /\ Cardinality(PathStarts(k, p)) >= 2

\* C9 (read before write): within one scan position, the start read from
\* level k-1 when level k >= 1 is updated is the one held on entry to the
\* position; every level updated at the position holds either the position
\* itself (level 0) or the start level k-1 held on entry; and so a chain
\* that reaches level k covers k+1 distinct reference positions.
C9_ReadBeforeWrite ==
    /\ (AtKey /\ KeyIndex >= 1 /\ At(query, KeyIndex) = At(history, bodyindex))
          => start_indices[KeyIndex - 1] = row_prev[KeyIndex - 1]
    /\ pc = "inner" =>
          \A i \in 1..(kpos - 1) :
              LET k == KeyOrder(m)[i] IN
                At(query, k) = At(history, bodyindex) =>
                    start_indices[k] =
                        IF k = 0 THEN Some(bodyindex) ELSE row_prev[k - 1]
    /\ Scanning =>
          \A k \in DOMAIN start_indices :
              start_indices[k] # None => Unwrap(start_indices[k]) + k <= bodyindex

\* The element at this position matches level k and level k-1, and level k-1
\* holds a start from an earlier position.
C9_Witness ==
    /\ AtKey /\ KeyIndex >= 1
    /\ At(query, KeyIndex) = At(history, bodyindex)
    /\ At(query, KeyIndex - 1) = At(history, bodyindex)
    /\ row_prev[KeyIndex - 1] # None

\* C10 (chain invariant): in every state of the loops, a present
\* start_indices[k], k >= 1, has a present start_indices[k-1] with
\* start_indices[k] <= start_indices[k-1] <= the current reference index.
C10_ChainInvariant ==
    Scanning =>
        \A k \in DOMAIN start_indices :
            (k >= 1 /\ start_indices[k] # None) =>
                /\ start_indices[k - 1] # None
                /\ Unwrap(start_indices[k]) <= Unwrap(start_indices[k - 1])
                /\ Unwrap(start_indices[k - 1]) <= bodyindex

\* Between two inner iterations, with the levels holding different starts.
C10_Witness ==
    /\ AtKey /\ m = 3 /\ kpos = 2
    /\ start_indices[2] # None /\ start_indices[1] # None
    /\ Unwrap(start_indices[2]) < Unwrap(start_indices[1])
    /\ Unwrap(start_indices[1]) < Unwrap(start_indices[0])

====
